---- MODULE Spec2Model ----
(***************************************************************************)
(* Model of the img-editor repository (Mainm0e/img-editor):                *)
(*   - the Batch Session      (components/BatchConverter.tsx)              *)
(*   - the Pipeline Executor  (app/api/convert/route.js, POST)             *)
(*   - the Single-Image Session (app/page.tsx, components/ImageEditor.tsx) *)
(* Optional JavaScript values (undefined or a value) are sequences of      *)
(* length 0 or 1.  Filter values and blur sigmas are counted in tenths.    *)
(*                                                                         *)
(* The specifications share the definitions:                              *)
(*   Spec          enrolment, removal and runs of a Batch Session under    *)
(*                 the settings it starts with (SpecFair: the same, with   *)
(*                 every read ending and every request settling);          *)
(*   SpecSettings  the settings controls and runs over two enrolled files  *)
(*                 (the controls write `settings` only, and a run reads it *)
(*                 only when Convert is clicked);                          *)
(*   SpecPost      the POST handler applied to one request body;           *)
(*   SpecEditor    the controls of an open ImageEditor;                    *)
(*   SpecSave      Save, Cancel and reopening over one draft;              *)
(*   SpecQuick     selecting an image and Quick Convert.                   *)
(***************************************************************************)
EXTENDS Integers, Sequences, FiniteSets, TLC

VARIABLES
  now,          \* Date.now(), the wall clock in milliseconds
  files,        \* BatchConverter state `files`: the enrolled BatchFile items
  settings,     \* BatchConverter state `settings`
  isProcessing, \* BatchConverter state `isProcessing`
  runs,         \* the live activations of processAllFiles (closure + position)
  request,      \* the body of the request given to the POST handler
  response,     \* what the POST handler answered for `request`
  page,         \* Home state: `originalFile`, `isProcessing`, `showEditor`, and
                \* the Quick Convert jobs that are outstanding
  editor,       \* ImageEditor state: the draft of the Single-Image Session
  saves         \* Save clicks on the editor and the requests they sent

vars == <<now, files, settings, isProcessing, runs, request, response,
          page, editor, saves>>

batchVars == <<now, files, settings, isProcessing, runs>>

serverVars == <<request, response>>

editorVars == <<page, editor, saves>>

-----------------------------------------------------------------------------
(* Bounds of the model *)

MaxClock == 2

MaxFiles == 2

MaxSelect == 2

MaxRuns == 2

MaxDim == 4

MaxSaveClicks == 2

MaxQuick == 3

-----------------------------------------------------------------------------
(* Optional values *)

None == <<>>

Some(x) == <<x>>

IsSome(o) == o # <<>>

Formats == {"jpeg", "png", "webp"}

\* The File objects a user can select: a MIME type and the content read from it.
FileObjects ==
  { [type |-> "image/png",  data |-> "ok"],
    [type |-> "image/png",  data |-> "corrupt"],
    [type |-> "text/plain", data |-> "ok"] }

\* file.type.startsWith('image/')
IsImage(file) == file.type \in {"image/png", "image/jpeg", "image/webp"}

\* The values typed into the settings controls.
QualityInputs == {10, 85}

WidthInputs == {0, -1, 2}

HeightInputs == {0, 3}

\* Number(e.target.value) || undefined
NumberOrUndefined(v) == IF v = 0 THEN None ELSE Some(v)

-----------------------------------------------------------------------------
(* The Pipeline Executor: POST /api/convert                                *)

\* JavaScript truthiness of an optional number: defined and not 0.
Truthy(o) == IsSome(o) /\ o[1] # 0

\* Sharp requires blur sigma to be between 0.3 and 1000 (in tenths).
BlurMin == 3

BlurMax == 10000

DefaultQuality == 90

Max(a, b) == IF a >= b THEN a ELSE b

Min(a, b) == IF a <= b THEN a ELSE b

\* One invocation of the codec (a method call on the sharp instance).
Call(op, key, args) == [op |-> op, key |-> key, args |-> args]

\* The parameter domains on which the codec's methods throw instead of returning.
ValidDim(o) == ~IsSome(o) \/ o[1] > 0

ValidModulate(o) == IsSome(o) /\ o[1] >= 0

ValidQuality(fmt, q) ==
  IsSome(q) /\ q[1] <= 100 /\ (IF fmt = "png" THEN q[1] >= 0 ELSE q[1] >= 1)

\* One statement of the handler: when `cond` holds and nothing has thrown yet,
\* the codec method is invoked; an invalid parameter makes it throw.
Stage(st, cond, call, valid) ==
  IF st.failed \/ ~cond
    THEN st
    ELSE [calls |-> Append(st.calls, call), failed |-> ~valid]

\* const { image, format = 'jpeg', quality = 90, width, height, rotate, filters = {} } = body
NoFilters ==
  [brightness |-> None, saturation |-> None, contrast |-> None,
   blur |-> None, sharpen |-> None]

\* The encoder method chosen by the switch on `format`.
EncoderOf(fmt) == IF fmt \in {"png", "webp"} THEN fmt ELSE "jpeg"

\* format = 'jpeg' when the body has none
Format(body) == IF IsSome(body.format) THEN body.format[1] ELSE "jpeg"

\* if (filters.blur !== undefined && filters.blur > 0)
BlurApplies(f) == IsSome(f.blur) /\ f.blur[1] > 0

\* Variant of the blur statement that passes the requested value on as it is.
BlurSigmaUnclamped(blur) == blur

\* const blurValue = Math.max(0.3, Math.min(1000, filters.blur))
BlurSigma(blur) == Max(BlurMin, Min(BlurMax, blur))

\* The sequence of codec invocations the handler makes for `body`, in the
\* order of its statements, up to and including one that throws.
Pipeline(body) ==
  LET format  == Format(body)
      quality == IF IsSome(body.quality) THEN body.quality ELSE Some(DefaultQuality)
      f       == body.filters
      s0 == [calls |-> <<Call("sharp", "", <<>>)>>, failed |-> FALSE]
      s1 == Stage(s0, Truthy(body.width) \/ Truthy(body.height),
                  Call("resize", "inside", <<body.width, body.height>>),
                  ValidDim(body.width) /\ ValidDim(body.height))
      s2 == Stage(s1, Truthy(body.rotate),
                  Call("rotate", "", <<body.rotate>>), TRUE)
      s3 == Stage(s2, IsSome(f.brightness),
                  Call("modulate", "brightness", <<f.brightness>>),
                  ValidModulate(f.brightness))
      s4 == Stage(s3, IsSome(f.saturation),
                  Call("modulate", "saturation", <<f.saturation>>),
                  ValidModulate(f.saturation))
      s5 == Stage(s4, IsSome(f.contrast),
                  Call("linear", "", <<f.contrast, Some(0)>>), TRUE)
      s6 == Stage(s5, BlurApplies(f),
                  Call("blur", "", <<Some(BlurSigma(f.blur[1]))>>),
                  TRUE)
      s7 == Stage(s6, IsSome(f.sharpen) /\ f.sharpen[1] > 0,
                  Call("sharpen", "", <<f.sharpen>>), TRUE)
      s8 == Stage(s7, TRUE,
                  Call(EncoderOf(format), "quality", <<quality>>),
                  ValidQuality(EncoderOf(format), quality))
      s9 == Stage(s8, TRUE, Call("toBuffer", "", <<>>), body.image # Some("corrupt"))
  IN s9

\* export async function POST(request): the HTTP status, the response text
\* (the encoded image: the source it was made from and its container format)
\* and the codec invocations made while handling the request.
POST(body) ==
  IF ~IsSome(body.image) \/ body.image[1] = ""
    THEN [status |-> 400, text |-> None, calls |-> <<>>]
    ELSE LET p == Pipeline(body)
         IN IF p.failed
              THEN [status |-> 500, text |-> None, calls |-> p.calls]
              ELSE [status |-> 200,
                    text |-> Some([image |-> body.image[1], format |-> EncoderOf(Format(body))]),
                    calls |-> p.calls]

\* response.ok
Ok(res) == res.status >= 200 /\ res.status <= 299

\* The pixel dimensions the codec gives an image of dimensions d.
\* resize(width, height, { fit: 'inside', withoutEnlargement: true }): the
\* largest size of the source's aspect ratio inside the box, never enlarged;
\* an absent side leaves that side of the box open.  Rounded to the nearest pixel.
RoundDiv(a, b) == (2 * a + b) \div (2 * b)

ResizeInside(d, width, height) ==
  LET byWidth  == IsSome(width) /\ width[1] < d.w
      byHeight == IsSome(height) /\ height[1] < d.h
      \* width[1] / d.w <= height[1] / d.h : the width is the tighter side
      widthTighter ==
        byWidth /\ (~byHeight \/ width[1] * d.h <= height[1] * d.w)
  IN IF ~byWidth /\ ~byHeight THEN d
     ELSE IF widthTighter
       THEN [w |-> width[1], h |-> Max(1, RoundDiv(d.h * width[1], d.w))]
       ELSE [w |-> Max(1, RoundDiv(d.w * height[1], d.h)), h |-> height[1]]

\* rotate(angle), for multiples of 45 degrees: a half turn keeps the
\* dimensions, a quarter turn swaps them, and any other angle yields the
\* bounding box of the rotated image, (w + h) * cos(45 deg) on each side.
RotateDims(d, angle) ==
  IF angle % 180 = 0 THEN d
  ELSE IF angle % 180 = 90 THEN [w |-> d.h, h |-> d.w]
  ELSE LET side == ((d.w + d.h) * 7071 + 9999) \div 10000
       IN [w |-> side, h |-> side]

\* The dimensions after the codec calls `calls`, applied in the order made.
OutputDims(calls, src) ==
  LET F[k \in 0..Len(calls)] ==
        IF k = 0 THEN src
        ELSE IF calls[k].op = "resize"
               THEN ResizeInside(F[k - 1], calls[k].args[1], calls[k].args[2])
        ELSE IF calls[k].op = "rotate"
               THEN RotateDims(F[k - 1], calls[k].args[1][1])
        ELSE F[k - 1]
  IN F[Len(calls)]

RemoveAt(s, r) == [k \in 1..(Len(s) - 1) |-> IF k < r THEN s[k] ELSE s[k + 1]]

-----------------------------------------------------------------------------
(* The Single-Image Session: Home (app/page.tsx) and ImageEditor           *)

\* Home's useState defaults; no Quick Convert job is outstanding.
InitialPage ==
  [originalFile |-> None, isProcessing |-> FALSE, showEditor |-> FALSE,
   quick |-> <<>>]

\* Home with an image selected.
PageWithImage ==
  [InitialPage EXCEPT !.originalFile = Some([type |-> "image/png", data |-> "ok"])]

\* ImageEditor's useState defaults; imgLoaded tells whether the <img> has
\* fired onLoad.  A closed editor is unmounted: it has this state when opened.
InitialEditor ==
  [imgLoaded |-> FALSE, crop |-> None, completedCrop |-> None,
   rotation |-> 0, brightness |-> 10, contrast |-> 10, saturation |-> 10,
   blur |-> 0, format |-> "jpeg", quality |-> 90,
   width |-> None, height |-> None]

\* No Save clicked yet, no request of handleEditorSave in flight.
NoSaves == [clicks |-> 0, pending |-> <<>>]

\* The rendered size of the <img> in the editor.
ImageWidth == 4

ImageHeight == 4

\* centerCrop(makeAspectCrop({ unit: '%', width: 90 }, 16 / 9, width, height), width, height)
CenteredCrop(width, height) ==
  LET h == Min(100, (90 * 9 * width) \div (16 * height))
  IN [unit |-> "%", x |-> 5, y |-> (100 - h) \div 2, width |-> 90, height |-> h]

\* The crops a drag on the image reports, in percent and in pixels.
PercentCrops == {[unit |-> "%", x |-> 0, y |-> 0, width |-> 50, height |-> 50]}

PixelCrops == {[unit |-> "px", x |-> 0, y |-> 0, width |-> 2, height |-> 2]}

\* The values of the editor's controls that a user moves them to.
RotationInputs == {-180, 45}

BrightnessInputs == {5}

ContrastInputs == {20}

SaturationInputs == {0}

BlurInputs == {5}

\* drawCroppedImage: nothing without a completed crop; otherwise the data URL
\* of the canvas, described by the region and the adjustments drawn into it
\* and by the encoding of toDataURL.
drawCroppedImage(e) ==
  IF ~IsSome(e.completedCrop)
    THEN None
    ELSE Some([crop |-> e.completedCrop[1], rotation |-> e.rotation,
               brightness |-> e.brightness, contrast |-> e.contrast,
               saturation |-> e.saturation, blur |-> e.blur,
               format |-> e.format, quality |-> e.quality])

\* The body handleEditorSave posts for the settings handleSave passes on.
EditorBody(e) ==
  [image |-> Some("ok"), format |-> Some(e.format), quality |-> Some(e.quality),
   width |-> e.width, height |-> e.height, rotate |-> Some(e.rotation),
   filters |-> [brightness |-> Some(e.brightness), contrast |-> Some(e.contrast),
                saturation |-> Some(e.saturation), blur |-> Some(e.blur),
                sharpen |-> None]]

\* {showEditor && file && (<ImageEditor ... />)}
EditorMounted == page.showEditor /\ IsSome(page.originalFile)

\* onClick={() => setShowEditor(true)}
openEditor ==
  /\ IsSome(page.originalFile)
  /\ ~page.showEditor
  /\ page' = [page EXCEPT !.showEditor = TRUE]
  /\ UNCHANGED <<editor, saves, batchVars, serverVars>>

\* onCancel={() => setShowEditor(false)}
onCancel ==
  /\ EditorMounted
  /\ page' = [page EXCEPT !.showEditor = FALSE]
  /\ editor' = InitialEditor
  /\ UNCHANGED <<saves, batchVars, serverVars>>

onImageLoad ==
  /\ EditorMounted
  /\ ~editor.imgLoaded
  /\ editor' = [editor EXCEPT !.imgLoaded = TRUE,
                              !.width = Some(ImageWidth),
                              !.height = Some(ImageHeight),
                              !.crop = Some(CenteredCrop(ImageWidth, ImageHeight))]
  /\ UNCHANGED <<page, saves, batchVars, serverVars>>

handleCropChange(percentCrop) ==
  /\ EditorMounted
  /\ editor.imgLoaded
  /\ editor' = [editor EXCEPT !.crop = Some(percentCrop)]
  /\ UNCHANGED <<page, saves, batchVars, serverVars>>

handleCropComplete(crop) ==
  /\ EditorMounted
  /\ editor.imgLoaded
  /\ editor' = [editor EXCEPT !.completedCrop = Some(crop)]
  /\ UNCHANGED <<page, saves, batchVars, serverVars>>

\* A control of the editor stores the value it is moved to.
SetDraft(field, value) ==
  /\ EditorMounted
  /\ editor' = [editor EXCEPT ![field] = value]
  /\ UNCHANGED <<page, saves, batchVars, serverVars>>

setRotation(v) == SetDraft("rotation", v)

setWidth(v) == SetDraft("width", NumberOrUndefined(v))

setHeight(v) == SetDraft("height", NumberOrUndefined(v))

setBrightness(v) == SetDraft("brightness", v)

setContrast(v) == SetDraft("contrast", v)

setSaturation(v) == SetDraft("saturation", v)

setBlur(v) == SetDraft("blur", v)

setFormat(v) == SetDraft("format", v)

setQuality(v) == SetDraft("quality", v)

resetFilters ==
  /\ EditorMounted
  /\ editor' = [editor EXCEPT !.brightness = 10, !.contrast = 10,
                              !.saturation = 10, !.blur = 0, !.rotation = 0]
  /\ UNCHANGED <<page, saves, batchVars, serverVars>>

\* A click on Save Changes runs handleSave; with image data it calls onSave,
\* handleEditorSave, which posts the request and awaits the response.
handleSave ==
  /\ EditorMounted
  /\ saves.clicks < MaxSaveClicks
  /\ LET croppedImageData == drawCroppedImage(editor)
     IN IF IsSome(croppedImageData)
          THEN /\ page' = [page EXCEPT !.isProcessing = TRUE]
               /\ saves' = [clicks |-> saves.clicks + 1,
                            pending |-> Append(saves.pending,
                                          [canvas |-> croppedImageData[1],
                                           body |-> EditorBody(editor)])]
          ELSE /\ saves' = [saves EXCEPT !.clicks = @ + 1]
               /\ UNCHANGED page
  /\ UNCHANGED <<editor, batchVars, serverVars>>

\* The response to a request of handleEditorSave arrives: when it is ok the
\* result is downloaded and the editor closed.
SaveResponds(k) ==
  /\ k \in DOMAIN saves.pending
  /\ LET res == POST(saves.pending[k].body)
     IN IF Ok(res)
          THEN /\ page' = [page EXCEPT !.isProcessing = FALSE, !.showEditor = FALSE]
               /\ editor' = InitialEditor
          ELSE /\ page' = [page EXCEPT !.isProcessing = FALSE]
               /\ UNCHANGED editor
  /\ saves' = [saves EXCEPT !.pending = RemoveAt(@, k)]
  /\ UNCHANGED <<batchVars, serverVars>>

\* The fetch of handleEditorSave rejects: the error is logged.
SaveRejects(k) ==
  /\ k \in DOMAIN saves.pending
  /\ page' = [page EXCEPT !.isProcessing = FALSE]
  /\ saves' = [saves EXCEPT !.pending = RemoveAt(@, k)]
  /\ UNCHANGED <<editor, batchVars, serverVars>>

\* handleUpload / handleDrop: handleFileSelect of Home keeps an image file.
handleUpload(selectedFile) ==
  /\ ~page.showEditor
  /\ IsImage(selectedFile)
  /\ page' = [page EXCEPT !.originalFile = Some(selectedFile)]
  /\ UNCHANGED <<editor, saves, batchVars, serverVars>>

\* body: JSON.stringify({ image: base64, format: 'jpeg', quality: 90, width: 800 })
QuickBody(file) ==
  [image |-> Some(file.data), format |-> Some("jpeg"), quality |-> Some(90),
   width |-> Some(800), height |-> None, rotate |-> None, filters |-> NoFilters]

\* isProcessing when handleQuickConvert returns: setIsProcessing(true), the
\* reader is started, setIsProcessing(false), with no await in between.
ProcessingAfterClick == FALSE

\* disabled={isProcessing} on the Quick Convert button, shown with a file
QuickConvertEnabled ==
  /\ IsSome(page.originalFile)
  /\ ~page.showEditor
  /\ ~page.isProcessing

\* A click on Quick Convert: the read of originalFile is started.
handleQuickConvert ==
  /\ QuickConvertEnabled
  /\ Len(page.quick) < MaxQuick
  /\ page' = [page EXCEPT !.isProcessing = ProcessingAfterClick,
                          !.quick = Append(@, [file |-> page.originalFile[1],
                                               pc |-> "reading", req |-> None])]
  /\ UNCHANGED <<editor, saves, batchVars, serverVars>>

\* reader.onload of Quick Convert up to the await of fetch.
QuickReaderLoad(j) ==
  /\ j \in DOMAIN page.quick
  /\ page.quick[j].pc = "reading"
  /\ page' = [page EXCEPT !.quick[j].pc = "fetching",
                          !.quick[j].req = Some(QuickBody(page.quick[j].file))]
  /\ UNCHANGED <<editor, saves, batchVars, serverVars>>

\* The read fails: no onerror handler is set, the job is over.
QuickReaderError(j) ==
  /\ j \in DOMAIN page.quick
  /\ page.quick[j].pc = "reading"
  /\ page' = [page EXCEPT !.quick = RemoveAt(@, j)]
  /\ UNCHANGED <<editor, saves, batchVars, serverVars>>

\* The response arrives and is handled: when it is ok the result is downloaded.
\* A rejected fetch ends the job as well.
QuickSettles(j) ==
  /\ j \in DOMAIN page.quick
  /\ page.quick[j].pc = "fetching"
  /\ page' = [page EXCEPT !.quick = RemoveAt(@, j)]
  /\ UNCHANGED <<editor, saves, batchVars, serverVars>>

-----------------------------------------------------------------------------
(* The Batch Session: BatchConverter                                       *)

Statuses == {"pending", "processing", "completed", "error"}

\* useState<BatchSettings>({ format: 'webp', quality: 85, maintainAspectRatio: true })
InitialSettings ==
  [format |-> "webp", quality |-> 85, width |-> None, height |-> None,
   maintainAspectRatio |-> TRUE]

\* The file lists a user can hand to one drop or one file-input change.
Selections == UNION { [1..n -> FileObjects] : n \in 1..MaxSelect }

\* id: `${Date.now()}-${index}`, index counted over the whole selection
BatchFile(t, index, file) ==
  [id |-> <<t, index>>, file |-> file, status |-> "pending",
   result |-> None, error |-> None]

\* newFiles after the forEach of handleFileSelect
NewFiles(selected, t) ==
  LET F[k \in 0..Len(selected)] ==
        IF k = 0 THEN <<>>
        ELSE IF IsImage(selected[k])
               THEN Append(F[k - 1], BatchFile(t, k - 1, selected[k]))
               ELSE F[k - 1]
  IN F[Len(selected)]

\* prev.filter(f => f.id !== id)
WithoutId(fs, id) ==
  LET F[k \in 0..Len(fs)] ==
        IF k = 0 THEN <<>>
        ELSE IF fs[k].id # id THEN Append(F[k - 1], fs[k]) ELSE F[k - 1]
  IN F[Len(fs)]

\* prev.map(f => ({ ...f, status: 'processing' }))
AllProcessing(fs) == [k \in DOMAIN fs |-> [fs[k] EXCEPT !.status = "processing"]]

\* prev.map(f => f.id === id ? { ...f, status: 'completed', result } : f)
MarkCompleted(fs, id, text) ==
  [k \in DOMAIN fs |->
     IF fs[k].id = id
       THEN [fs[k] EXCEPT !.status = "completed", !.result = Some(text)]
       ELSE fs[k]]

\* prev.map(f => f.id === id ? { ...f, status: 'error', error: 'Failed to process' } : f)
MarkError(fs, id) ==
  [k \in DOMAIN fs |->
     IF fs[k].id = id
       THEN [fs[k] EXCEPT !.status = "error", !.error = Some("Failed to process")]
       ELSE fs[k]]

\* downloadSingle(file): the link that is clicked for a completed item with
\* a result, nothing otherwise.  `settings` is that of the current render.
downloadSingle(file) ==
  IF file.status = "completed" /\ IsSome(file.result)
    THEN Some([mime |-> settings.format, extension |-> settings.format,
               data |-> file.result[1]])
    ELSE None

\* downloadAll: the links clicked by the forEach over `files`, in order.
downloadAll ==
  LET F[k \in 0..Len(files)] ==
        IF k = 0 THEN <<>> ELSE F[k - 1] \o downloadSingle(files[k])
  IN F[Len(files)]

\* Variant of the Convert button that is disabled for an empty list only.
ConvertEnabledWhileRunning == Len(files) # 0

\* The Convert button: disabled={files.length === 0 || isProcessing}
ConvertEnabled == Len(files) # 0 /\ ~isProcessing

\* Variant of the Remove button that is never disabled.
RemoveEnabledAlways == TRUE

\* The Remove button: disabled={isProcessing}
RemoveEnabled == ~isProcessing

\* The settings controls carry no `disabled` attribute.
SettingsEnabled == TRUE

\* Variant of processFile that reads the settings of the latest render.
RequestSettingsLatest(r) == settings

\* The settings processFile reads for run r: the `settings` of the render in
\* which the Convert button was clicked, held by the closure.
RequestSettings(r) == runs[r].settings

\* body: JSON.stringify({ image, format, quality, width, height })
RequestBody(file, s) ==
  [image |-> Some(file.data), format |-> Some(s.format), quality |-> Some(s.quality),
   width |-> s.width, height |-> s.height, rotate |-> None, filters |-> NoFilters]

\* The item of its closure that run r is working on.
Current(r) == runs[r].files[runs[r].i]

Tick ==
  /\ now < MaxClock
  /\ now' = now + 1
  /\ UNCHANGED <<files, settings, isProcessing, runs, serverVars, editorVars>>

handleFileSelect(selectedFiles) ==
  /\ Len(files) + Len(NewFiles(selectedFiles, now)) <= MaxFiles
  /\ files' = files \o NewFiles(selectedFiles, now)
  /\ UNCHANGED <<now, settings, isProcessing, runs, serverVars, editorVars>>

removeFile(id) ==
  /\ RemoveEnabled
  /\ \E k \in DOMAIN files : files[k].id = id
  /\ files' = WithoutId(files, id)
  /\ UNCHANGED <<now, settings, isProcessing, runs, serverVars, editorVars>>

SetFormat(v) ==
  /\ SettingsEnabled
  /\ settings' = [settings EXCEPT !.format = v]
  /\ UNCHANGED <<now, files, isProcessing, runs, serverVars, editorVars>>

SetQuality(v) ==
  /\ SettingsEnabled
  /\ settings' = [settings EXCEPT !.quality = v]
  /\ UNCHANGED <<now, files, isProcessing, runs, serverVars, editorVars>>

SetWidth(v) ==
  /\ SettingsEnabled
  /\ settings' = [settings EXCEPT !.width = NumberOrUndefined(v)]
  /\ UNCHANGED <<now, files, isProcessing, runs, serverVars, editorVars>>

SetHeight(v) ==
  /\ SettingsEnabled
  /\ settings' = [settings EXCEPT !.height = NumberOrUndefined(v)]
  /\ UNCHANGED <<now, files, isProcessing, runs, serverVars, editorVars>>

SetMaintainAspectRatio(v) ==
  /\ SettingsEnabled
  /\ settings' = [settings EXCEPT !.maintainAspectRatio = v]
  /\ UNCHANGED <<now, files, isProcessing, runs, serverVars, editorVars>>

\* The click on Convert: the synchronous part of processAllFiles up to the
\* first await, i.e. including readAsDataURL for the first item.
processAllFiles ==
  /\ ConvertEnabled
  /\ Len(runs) < MaxRuns
  /\ isProcessing' = TRUE
  /\ files' = AllProcessing(files)
  /\ runs' = Append(runs,
       [files |-> [k \in DOMAIN files |-> [id |-> files[k].id, file |-> files[k].file]],
        settings |-> settings, i |-> 1, pc |-> "reading",
        req |-> None, sent |-> <<>>])
  /\ UNCHANGED <<now, settings, serverVars, editorVars>>

\* reader.onload up to the await of fetch: the request is issued.
ReaderLoad(r) ==
  /\ runs[r].pc = "reading"
  /\ LET body == RequestBody(Current(r).file, RequestSettings(r))
     IN runs' = [runs EXCEPT ![r].pc = "fetching", ![r].req = Some(body),
                             ![r].sent = Append(@, [id |-> Current(r).id, body |-> body])]
  /\ UNCHANGED <<now, files, settings, isProcessing, serverVars, editorVars>>

\* The FileReader fails to read the file (it fires `error`, not `load`): no
\* onerror handler is set, so the promise of processFile never resolves.
ReaderError(r) ==
  /\ runs[r].pc = "reading"
  /\ runs' = [runs EXCEPT ![r].pc = "hung"]
  /\ UNCHANGED <<now, files, settings, isProcessing, serverVars, editorVars>>

\* resolve(), then the loop of processAllFiles: the next item's processFile,
\* or setIsProcessing(false) once the closure's list is exhausted.
Continue(r) ==
  IF runs[r].i < Len(runs[r].files)
    THEN /\ runs' = [runs EXCEPT ![r].i = @ + 1, ![r].pc = "reading", ![r].req = None]
         /\ UNCHANGED isProcessing
    ELSE /\ runs' = RemoveAt(runs, r)
         /\ isProcessing' = FALSE

\* The fetch settles with the server's response.
FetchResponds(r) ==
  /\ runs[r].pc = "fetching"
  /\ LET res == POST(runs[r].req[1])
     IN files' = IF Ok(res)
                   THEN MarkCompleted(files, Current(r).id, res.text[1])
                   ELSE MarkError(files, Current(r).id)
  /\ Continue(r)
  /\ UNCHANGED <<now, settings, serverVars, editorVars>>

\* The fetch (or reading the response text) rejects: network failure.
FetchRejects(r) ==
  /\ runs[r].pc = "fetching"
  /\ files' = MarkError(files, Current(r).id)
  /\ Continue(r)
  /\ UNCHANGED <<now, settings, serverVars, editorVars>>

Init ==
  /\ now = 1
  /\ files = <<>>
  /\ settings = InitialSettings
  /\ isProcessing = FALSE
  /\ runs = <<>>
  /\ request = None
  /\ response = None
  /\ page = InitialPage
  /\ editor = InitialEditor
  /\ saves = NoSaves

\* The lifecycle of a Batch Session under the settings it starts with.
Next ==
  \/ Tick
  \/ \E selectedFiles \in Selections : handleFileSelect(selectedFiles)
  \/ \E k \in DOMAIN files : removeFile(files[k].id)
  \/ processAllFiles
  \/ \E r \in DOMAIN runs : ReaderLoad(r)
  \/ \E r \in DOMAIN runs : ReaderError(r)
  \/ \E r \in DOMAIN runs : FetchResponds(r)
  \/ \E r \in DOMAIN runs : FetchRejects(r)

Spec == Init /\ [][Next]_vars

\* A started read ends with `load` or `error`, and a request that was sent settles.
ReadEnds == \E r \in DOMAIN runs : ReaderLoad(r) \/ ReaderError(r)

FetchSettles == \E r \in DOMAIN runs : FetchResponds(r) \/ FetchRejects(r)

Fairness == WF_vars(ReadEnds) /\ WF_vars(FetchSettles)

SpecFair == Spec /\ Fairness

\* The settings controls and the runs, over two files enrolled by one selection.
InitSettings ==
  /\ now = 1
  /\ files = NewFiles(<<[type |-> "image/png", data |-> "ok"],
                         [type |-> "image/png", data |-> "corrupt"]>>, 1)
  /\ settings = InitialSettings
  /\ isProcessing = FALSE
  /\ runs = <<>>
  /\ request = None
  /\ response = None
  /\ page = InitialPage
  /\ editor = InitialEditor
  /\ saves = NoSaves

NextSettings ==
  \/ \E v \in Formats : SetFormat(v)
  \/ \E v \in QualityInputs : SetQuality(v)
  \/ \E v \in WidthInputs : SetWidth(v)
  \/ \E v \in HeightInputs : SetHeight(v)
  \/ \E v \in BOOLEAN : SetMaintainAspectRatio(v)
  \/ processAllFiles
  \/ \E r \in DOMAIN runs : ReaderLoad(r)
  \/ \E r \in DOMAIN runs : ReaderError(r)
  \/ \E r \in DOMAIN runs : FetchResponds(r)
  \/ \E r \in DOMAIN runs : FetchRejects(r)

SpecSettings == InitSettings /\ [][NextSettings]_vars

\* The Pipeline Executor alone: one request, drawn from the bodies below.
ImageInputs == {Some(""), Some("ok"), Some("corrupt")}

FormatInputs == {None} \cup {Some(f) : f \in Formats \cup {"gif"}}

QualityOptions == {None, Some(0), Some(50)}

WidthOptions == {None, Some(-1), Some(0), Some(2)}

HeightOptions == {None, Some(3)}

\* (angles whose effect on the dimensions does not depend on the codec version)
RotateOptions == {None, Some(0), Some(45), Some(180)}

FilterInputs ==
  [brightness : {None, Some(12)}, saturation : {None, Some(10)},
   contrast : {None, Some(11)},
   blur : {None, Some(0), Some(1), Some(20), Some(20000)},
   sharpen : {None, Some(10)}]

Bodies ==
  [image : ImageInputs, format : FormatInputs, quality : QualityOptions,
   width : WidthOptions, height : HeightOptions, rotate : RotateOptions,
   filters : FilterInputs]

InitPost ==
  /\ now = 1
  /\ files = <<>>
  /\ settings = InitialSettings
  /\ isProcessing = FALSE
  /\ runs = <<>>
  /\ request \in {Some(b) : b \in Bodies}
  /\ response = None
  /\ page = InitialPage
  /\ editor = InitialEditor
  /\ saves = NoSaves

\* The route handler serves the request.
ServePOST ==
  /\ IsSome(request)
  /\ response = None
  /\ response' = Some(POST(request[1]))
  /\ UNCHANGED <<batchVars, request, editorVars>>

NextPost == ServePOST

SpecPost == InitPost /\ [][NextPost]_vars

\* Editing the draft in an open editor.
InitEditor ==
  /\ now = 1
  /\ files = <<>>
  /\ settings = InitialSettings
  /\ isProcessing = FALSE
  /\ runs = <<>>
  /\ request = None
  /\ response = None
  /\ page = [PageWithImage EXCEPT !.showEditor = TRUE]
  /\ editor = InitialEditor
  /\ saves = NoSaves

NextEditor ==
  \/ onImageLoad
  \/ \E c \in PercentCrops : handleCropChange(c)
  \/ \E c \in PixelCrops : handleCropComplete(c)
  \/ \E v \in RotationInputs : setRotation(v)
  \/ \E v \in WidthInputs : setWidth(v)
  \/ \E v \in HeightInputs : setHeight(v)
  \/ \E v \in BrightnessInputs : setBrightness(v)
  \/ \E v \in ContrastInputs : setContrast(v)
  \/ \E v \in SaturationInputs : setSaturation(v)
  \/ \E v \in BlurInputs : setBlur(v)
  \/ \E v \in Formats : setFormat(v)
  \/ \E v \in QualityInputs : setQuality(v)
  \/ resetFilters

SpecEditor == InitEditor /\ [][NextEditor]_vars

\* The drafts an open editor with its image loaded is saved from: with and
\* without a completed crop, the adjustments untouched or all moved.
SaveDrafts ==
  { [InitialEditor EXCEPT !.imgLoaded = TRUE, !.crop = Some(c[1]),
       !.completedCrop = c[2], !.rotation = r, !.width = w, !.height = h,
       !.brightness = a[1], !.contrast = a[2], !.saturation = a[3],
       !.blur = a[4], !.format = f, !.quality = q] :
      c \in {<<CenteredCrop(ImageWidth, ImageHeight), None>>}
              \cup {<<p, Some(x)>> : p \in PercentCrops, x \in PixelCrops},
      r \in {0} \cup RotationInputs,
      w \in {Some(ImageWidth)} \cup {NumberOrUndefined(v) : v \in WidthInputs},
      h \in {Some(ImageHeight)} \cup {NumberOrUndefined(v) : v \in HeightInputs},
      a \in {<<10, 10, 10, 0>>}
              \cup (BrightnessInputs \X ContrastInputs \X SaturationInputs \X BlurInputs),
      f \in Formats,
      q \in {90} \cup QualityInputs }

\* Saving, cancelling and reopening the editor, with no further edits.
InitSave ==
  /\ now = 1
  /\ files = <<>>
  /\ settings = InitialSettings
  /\ isProcessing = FALSE
  /\ runs = <<>>
  /\ request = None
  /\ response = None
  /\ page = [PageWithImage EXCEPT !.showEditor = TRUE]
  /\ editor \in SaveDrafts
  /\ saves = NoSaves

NextSave ==
  \/ handleSave
  \/ \E k \in DOMAIN saves.pending : SaveResponds(k)
  \/ \E k \in DOMAIN saves.pending : SaveRejects(k)
  \/ onCancel
  \/ openEditor

SpecSave == InitSave /\ [][NextSave]_vars

\* Selecting an image on the page and converting it with Quick Convert.
InitQuick ==
  /\ now = 1
  /\ files = <<>>
  /\ settings = InitialSettings
  /\ isProcessing = FALSE
  /\ runs = <<>>
  /\ request = None
  /\ response = None
  /\ page = InitialPage
  /\ editor = InitialEditor
  /\ saves = NoSaves

NextQuick ==
  \/ \E f \in FileObjects : handleUpload(f)
  \/ handleQuickConvert
  \/ \E j \in DOMAIN page.quick : QuickReaderLoad(j)
  \/ \E j \in DOMAIN page.quick : QuickReaderError(j)
  \/ \E j \in DOMAIN page.quick : QuickSettles(j)

SpecQuick == InitQuick /\ [][NextQuick]_vars

-----------------------------------------------------------------------------
(* Properties                                                              *)

Processing == {k \in DOMAIN files : files[k].status = "processing"}

\* The runs whose request to /api/convert is in flight.
InFlight == {r \in DOMAIN runs : runs[r].pc = "fetching"}

Terminal(status) == status \in {"completed", "error"}

\* C1: in every reachable state of a Batch Session at most one item has
\* status 'processing'.
C1_AtMostOneProcessing == Cardinality(Processing) <= 1

\* C2: the only status changes an item undergoes are pending -> processing,
\* processing -> completed and processing -> error; a completed or error item
\* never changes status again, also when a run is started a second time.
\* (Steps that remove items change no status; the others keep positions.)
C2_StatusTransitions ==
  [][Len(files') >= Len(files) =>
       \A k \in DOMAIN files :
          \/ files'[k].status = files[k].status
          \/ files[k].status = "pending" /\ files'[k].status = "processing"
          \/ files[k].status = "processing" /\ Terminal(files'[k].status)]_vars

\* C3: partial-failure isolation.  When the request of a run's current item
\* settles, that item becomes 'completed' exactly when its own conversion
\* succeeded and 'error' otherwise, and no other item changes; and a run that
\* ends has submitted every item of the run exactly once, in order.
C3_PartialFailureIsolation ==
  [][\A r \in DOMAIN runs :
       (runs[r].pc = "fetching" /\ runs' # runs) =>
          /\ \A k \in DOMAIN files : k # runs[r].i => files'[k] = files[k]
          /\ Terminal(files'[runs[r].i].status)
          /\ files'[runs[r].i].status = "completed" => Ok(POST(runs[r].req[1]))
          /\ Len(runs') < Len(runs) =>
               /\ Len(runs[r].sent) = Len(runs[r].files)
               /\ \A k \in DOMAIN runs[r].sent :
                    runs[r].sent[k].id = runs[r].files[k].id]_vars

\* The order the claim fixes for the stages of one request.
StageRank(call) ==
  CASE call.op = "rotate" -> 1
    [] call.op \in {"modulate", "linear", "blur"} -> 2
    [] call.op = "resize" -> 3
    [] call.op \in Formats -> 4
    [] OTHER -> 0

\* C4: for every request the Pipeline Executor applies its stages in the
\* order rotation, photometric adjustments, resize, encode: resize is never
\* applied before rotation or a photometric adjustment, and encode is last.
C4_StageOrder ==
  IsSome(response) =>
    LET c == response[1].calls
    IN \A i, j \in DOMAIN c :
         (i < j /\ StageRank(c[i]) > 0 /\ StageRank(c[j]) > 0) =>
            StageRank(c[i]) <= StageRank(c[j])

\* C5: at most one request to /api/convert is in flight; the request for item
\* k+1 of a run is issued only after item k's request has settled (the
\* requests issued so far are exactly those of the items before the current
\* one, plus the current one while it is in flight); and no second run is
\* started while one is in progress.
C5_OneRequestInFlight ==
  /\ Cardinality(InFlight) <= 1
  /\ Len(runs) <= 1
  /\ (ConvertEnabled => runs = <<>>)
  /\ \A r \in DOMAIN runs :
       /\ Len(runs[r].sent) = IF runs[r].pc = "fetching" THEN runs[r].i ELSE runs[r].i - 1
       /\ \A k \in DOMAIN runs[r].sent : runs[r].sent[k].id = runs[r].files[k].id
       /\ \A k \in 1..(runs[r].i - 1) : Terminal(files[k].status)

\* C5 witness: the second item's request is in flight after the first item's
\* request has settled.
C5_Witness ==
  \E r \in DOMAIN runs :
     /\ runs[r].pc = "fetching"
     /\ runs[r].i = 2
     /\ Len(runs[r].sent) = 2
     /\ Terminal(files[1].status)

\* C6: for every item, the result is present iff the status is 'completed'
\* and the error is present iff the status is 'error'.
C6_ResultErrorPresence ==
  \A k \in DOMAIN files :
     /\ IsSome(files[k].result) <=> files[k].status = "completed"
     /\ IsSome(files[k].error) <=> files[k].status = "error"

\* The BatchSettings values a request body carries.
SettingsOf(body) ==
  [format |-> body.format, quality |-> body.quality,
   width |-> body.width, height |-> body.height]

\* C7: within one run every item's request is built from the BatchSettings
\* values (format, quality, width, height) that were current when the run
\* started, whatever the settings controls hold by then; and the request
\* carries no crop and no rotation.
C7_RunUsesSettingsAtStart ==
  \A r \in DOMAIN runs :
     \A k \in DOMAIN runs[r].sent :
        LET body == runs[r].sent[k].body
        IN /\ SettingsOf(body) =
                [format |-> Some(runs[r].settings.format),
                 quality |-> Some(runs[r].settings.quality),
                 width |-> runs[r].settings.width,
                 height |-> runs[r].settings.height]
           /\ SettingsOf(body) = SettingsOf(runs[r].sent[1].body)
           /\ "crop" \notin DOMAIN body
           /\ body.rotate = None

\* C7 witness: the second request of a run is in flight after format, quality,
\* width and height were all edited during the run.
C7_Witness ==
  \E r \in DOMAIN runs :
     /\ runs[r].pc = "fetching"
     /\ Len(runs[r].sent) = 2
     /\ settings.format # runs[r].settings.format
     /\ settings.quality # runs[r].settings.quality
     /\ settings.width # runs[r].settings.width
     /\ settings.height # runs[r].settings.height

\* C8: while a batch run is in progress, an attempt to change BatchSettings
\* is rejected and leaves the settings unchanged.
C8_SettingsReadOnlyDuringRun ==
  [][isProcessing => settings' = settings]_vars

\* C9: a run can be cancelled at an item boundary.  At an item boundary (item
\* k has finished, item k+1 is not yet submitted) the items 1..k are terminal,
\* every remaining item is still 'pending', and none is 'processing', so that
\* stopping there leaves the remaining items pending.
C9_CancelAtItemBoundary ==
  \A r \in DOMAIN runs :
     (runs[r].pc = "reading" /\ runs[r].i > 1) =>
        /\ \A k \in 1..(runs[r].i - 1) : Terminal(files[k].status)
        /\ \A k \in runs[r].i..Len(runs[r].files) : files[k].status = "pending"
        /\ Processing = {}

\* C10: no item is removed while its status is 'processing': remove is enabled
\* only where isProcessing is false, and in every state in which it is enabled
\* no item has status 'processing'.
C10_NoRemoveWhileProcessing ==
  /\ RemoveEnabled => ~isProcessing
  /\ RemoveEnabled => Processing = {}

\* C10 witness: after a run over two items has ended, one item completed and
\* one failed, remove is enabled for both.
C10_Witness ==
  /\ RemoveEnabled
  /\ Len(files) = 2
  /\ \E k \in DOMAIN files : files[k].status = "completed"
  /\ \E k \in DOMAIN files : files[k].status = "error"

\* C11: in every reachable state of a Batch Session no two items share the
\* same id, also when two enroll calls happen within the same clock
\* millisecond, so that remove(id) and a status update for id affect exactly
\* one item.
C11_UniqueIds ==
  \A j, k \in DOMAIN files : j # k => files[j].id # files[k].id

\* The parameter domains of the pipeline invocation boundary: width and
\* height positive, quality in 1..100, rotate in -180..180, filters >= 0.
OutOfDomain(body) ==
  \/ IsSome(body.width) /\ body.width[1] <= 0
  \/ IsSome(body.height) /\ body.height[1] <= 0
  \/ IsSome(body.quality) /\ body.quality[1] \notin 1..100
  \/ IsSome(body.rotate) /\ body.rotate[1] \notin (-180)..180
  \/ \E n \in DOMAIN body.filters :
        IsSome(body.filters[n]) /\ body.filters[n][1] < 0

\* C12: for every request with an out-of-domain numeric parameter the
\* Pipeline Executor reports an error, and does so before any pipeline stage
\* (resize, rotate, filter, encode) is invoked.
C12_ValidationBeforeStages ==
  (IsSome(response) /\ OutOfDomain(request[1])) =>
     /\ ~Ok(response[1])
     /\ \A i \in DOMAIN response[1].calls : StageRank(response[1].calls[i]) = 0

\* The positions of the blur calls among the codec calls of the response.
BlurCalls == {i \in DOMAIN response[1].calls : response[1].calls[i].op = "blur"}

\* The handler got as far as the switch on the output format: the image is
\* present and no codec call before it threw.
ReachedEncoder ==
  \E i \in DOMAIN response[1].calls : StageRank(response[1].calls[i]) = 4

\* What the claim says of a blur call and of blur = 0, for the served request.
BlurCallsAsClaimed ==
  LET body == request[1]
      blur == body.filters.blur
      c    == response[1].calls
  IN /\ \A i \in BlurCalls :
          c[i].args = <<Some(IF blur[1] < 3 THEN 3
                             ELSE IF blur[1] > 10000 THEN 10000 ELSE blur[1])>>
     /\ Cardinality(BlurCalls) <= 1
     /\ POST([body EXCEPT !.filters.blur = Some(0)]).calls =
        POST([body EXCEPT !.filters.blur = None]).calls

\* C13 as claimed: for every request the blur stage is invoked if and only if
\* filters.blur is present and greater than 0; when invoked its sigma is
\* max(0.3, min(1000, blur)); and blur = 0 runs the same stage sequence as
\* blur absent.
C13_BlurStage_AsClaimed ==
  IsSome(response) =>
     /\ BlurCalls # {} <=>
          (IsSome(request[1].filters.blur) /\ request[1].filters.blur[1] > 0)
     /\ BlurCallsAsClaimed

\* C13 amended: the blur stage is invoked only if filters.blur is present and
\* greater than 0, and it is invoked for every such request in which the
\* handler gets as far as the blur statement (image present, no earlier codec
\* call throws); when invoked its sigma is max(0.3, min(1000, blur)); and
\* blur = 0 runs the same stage sequence as blur absent.
C13_BlurStage ==
  IsSome(response) =>
     /\ BlurCalls # {} =>
          (IsSome(request[1].filters.blur) /\ request[1].filters.blur[1] > 0)
     /\ (ReachedEncoder /\ IsSome(request[1].filters.blur)
           /\ request[1].filters.blur[1] > 0) => BlurCalls # {}
     /\ BlurCallsAsClaimed

\* C13 witness: a served request with blur 0.1, whose blur call got sigma 0.3.
C13_Witness ==
  /\ IsSome(response)
  /\ request[1].filters.blur = Some(1)
  /\ \E i \in BlurCalls : response[1].calls[i].args = <<Some(3)>>

\* The place of a photometric step in the sub-order the claim fixes.
PhotometricRank(call) ==
  CASE call.op = "modulate" /\ call.key = "brightness" -> 1
    [] call.op = "modulate" /\ call.key = "saturation" -> 2
    [] call.op = "linear" -> 3
    [] call.op = "blur" -> 4
    [] OTHER -> 0

\* C14: the photometric steps that are present run in the sub-order
\* brightness, saturation, contrast, blur, and blur is the last
\* pixel-modifying step before resize/encode: after a blur call only resize,
\* the encoder and the final toBuffer follow, no sharpening or other filter.
C14_PhotometricOrder ==
  IsSome(response) =>
    LET c == response[1].calls
    IN /\ \A i, j \in DOMAIN c :
            (i < j /\ PhotometricRank(c[i]) > 0 /\ PhotometricRank(c[j]) > 0) =>
               PhotometricRank(c[i]) < PhotometricRank(c[j])
       /\ \A i, j \in DOMAIN c :
            (i < j /\ c[i].op = "blur") =>
               c[j].op \in {"resize", "toBuffer"} \cup Formats

\* The dimensions a source image can have.
SourceDims == [w : 1..MaxDim, h : 1..MaxDim]

\* A target dimension of the request that is set: a positive integer.
TargetSet(t) == IsSome(t) /\ t[1] > 0

\* C15: for every request with width and/or height set, with or without a
\* rotation, the dimensions of the returned image never exceed a requested
\* dimension and never exceed the source's dimensions; when both targets are
\* larger than the source the output dimensions equal the source dimensions.
C15_OutputDimensions ==
  (/\ IsSome(response)
   /\ Ok(response[1])
   /\ TargetSet(request[1].width) \/ TargetSet(request[1].height)
   /\ \A t \in {request[1].width, request[1].height} : IsSome(t) => TargetSet(t)) =>
    \A src \in SourceDims :
       LET width  == request[1].width
           height == request[1].height
           out    == OutputDims(response[1].calls, src)
       IN /\ IsSome(width) => out.w <= width[1]
          /\ IsSome(height) => out.h <= height[1]
          /\ out.w <= src.w
          /\ out.h <= src.h
          /\ (IsSome(width) /\ IsSome(height)
                /\ width[1] > src.w /\ height[1] > src.h) => out = src

\* C15 without a rotation in the request.
C15_UnrotatedOutputDimensions ==
  ~Truthy(request[1].rotate) => C15_OutputDimensions

\* The encoder invocations among the codec calls of a response.
EncoderCalls(res) == SelectSeq(res.calls, LAMBDA c : c.op \in Formats)

\* C16: for format 'png' the quality value does not influence the encoding:
\* two requests that differ only in quality and both have format 'png' lead
\* to the same encoder invocation, whereas for 'jpeg' and 'webp' the request's
\* quality is passed unchanged to the encoder.
C16_PngIgnoresQuality ==
  IsSome(response) =>
    LET body == request[1]
        enc  == EncoderCalls(response[1])
    IN /\ Format(body) = "png" =>
            \A q \in QualityOptions :
               EncoderCalls(POST([body EXCEPT !.quality = q])) = enc
       /\ (Format(body) \in {"jpeg", "webp"} /\ IsSome(body.quality)) =>
            \A i \in DOMAIN enc : enc[i].args = <<body.quality>>

\* C16 for 'jpeg' and 'webp' alone.
C16_LossyQualityPassedOn ==
  (IsSome(response) /\ Format(request[1]) # "png") => C16_PngIgnoresQuality

\* C17: every Save in the Single-Image Session invokes the Pipeline Executor
\* exactly once with a snapshot of the current draft, also when no crop
\* rectangle has been set.
C17_SaveInvokesOnce ==
  [][saves'.clicks = saves.clicks + 1 =>
       /\ Len(saves'.pending) = Len(saves.pending) + 1
       /\ LET sent == saves'.pending[Len(saves'.pending)].body
          IN /\ sent.format = Some(editor.format)
             /\ sent.quality = Some(editor.quality)
             /\ sent.width = editor.width
             /\ sent.height = editor.height
             /\ sent.rotate = Some(editor.rotation)
             /\ sent.filters.brightness = Some(editor.brightness)
             /\ sent.filters.contrast = Some(editor.contrast)
             /\ sent.filters.saturation = Some(editor.saturation)
             /\ sent.filters.blur = Some(editor.blur)]_vars

\* C17 for the Saves made with a completed crop.
C17_SaveWithCropInvokesOnce ==
  [][(saves'.clicks = saves.clicks + 1 /\ IsSome(editor.completedCrop)) =>
       /\ Len(saves'.pending) = Len(saves.pending) + 1
       /\ saves'.pending[Len(saves'.pending)].body = EditorBody(editor)]_vars

\* The domain of an optional target dimension: absent or a positive integer.
DimInDomain(d) == IsSome(d) => d[1] > 0

\* C18: after any sequence of update operations on the Single-Image draft or
\* on BatchSettings every parameter is inside its domain (rotation in
\* [-180,180], quality in [1,100], width and height absent or positive), an
\* out-of-domain input is never stored, and no update operation triggers a
\* Pipeline Executor invocation.
C18_ParametersInDomain ==
  /\ editor.rotation \in (-180)..180
  /\ editor.quality \in 1..100
  /\ DimInDomain(editor.width) /\ DimInDomain(editor.height)
  /\ settings.quality \in 1..100
  /\ DimInDomain(settings.width) /\ DimInDomain(settings.height)
  /\ saves.pending = <<>>

\* C18 without the target dimensions.
C18_RotationAndQualityInDomain ==
  /\ editor.rotation \in (-180)..180
  /\ editor.quality \in 1..100
  /\ settings.quality \in 1..100
  /\ saves.pending = <<>>

\* The positions of the items enrolled after run r was started: Remove is
\* disabled during a run, so they follow the items of the run's closure.
EnrolledDuring(r) == {k \in DOMAIN files : k > Len(runs[r].files)}

\* C19: enroll appends exactly one new 'pending' item, in input order, for
\* each image file and nothing for any other file, and leaves every
\* already-enrolled item unchanged; items enrolled while a run is in progress
\* stay 'pending' and are not submitted by that run.
C19_EnrollFrame ==
  [][/\ Len(files') > Len(files) =>
          /\ \A k \in DOMAIN files : files'[k] = files[k]
          /\ \E selected \in Selections :
                /\ Len(files') - Len(files) = Len(SelectSeq(selected, IsImage))
                /\ \A j \in 1..(Len(files') - Len(files)) :
                      LET item == files'[Len(files) + j]
                      IN /\ item.file = SelectSeq(selected, IsImage)[j]
                         /\ item.status = "pending"
                         /\ item.result = None /\ item.error = None
     /\ \A r \in DOMAIN runs :
          /\ Len(runs[r].sent) <= Len(runs[r].files)
          /\ \A k \in EnrolledDuring(r) \cap DOMAIN files' :
                files'[k].status = "pending"]_vars

\* C20: every started batch run terminates: whatever the outcome of each
\* item's processing (successful response, non-OK response, network rejection
\* or failure to read the file), isProcessing eventually returns to false and
\* every item put into 'processing' by the run eventually reaches 'completed'
\* or 'error', so no item stays 'processing' forever.
C20_RunTerminates ==
  /\ isProcessing ~> ~isProcessing
  /\ (Processing # {}) ~> (Processing = {})

\* A run whose read failed: nothing it waits for will happen.
Hung == {r \in DOMAIN runs : runs[r].pc = "hung"}

\* C20 for the runs in which every file is read.
C20_RunTerminatesUnlessHung ==
  /\ isProcessing ~> (~isProcessing \/ Hung # {})
  /\ (Processing # {}) ~> (Processing = {} \/ Hung # {})

\* The transformations of the draft, and for each the value that leaves the
\* image as it is.
Transformations == {"rotation", "brightness", "contrast", "saturation", "blur"}

Identity(t) == IF t \in {"rotation", "blur"} THEN 0 ELSE 10

\* The canvas rendering has transformation t drawn into the image data.
Baked(t, canvas) == canvas[t] # Identity(t)

\* The codec call by which the executor applies transformation t.
AppliesTransformation(call, t) ==
  CASE t = "rotation"   -> call.op = "rotate"
    [] t = "brightness" -> call.op = "modulate" /\ call.key = "brightness"
    [] t = "saturation" -> call.op = "modulate" /\ call.key = "saturation"
    [] t = "contrast"   -> call.op = "linear"
    [] t = "blur"       -> call.op = "blur"

\* The executor, serving `body`, applies transformation t with an effect.
AppliedByExecutor(t, body) ==
  LET calls == POST(body).calls
  IN \E i \in DOMAIN calls :
        /\ AppliesTransformation(calls[i], t)
        /\ calls[i].args[1] # Some(Identity(t))

\* C21: on Save each transformation of the draft (rotation, brightness,
\* contrast, saturation, blur) is applied to the image exactly once on the
\* path from the canvas rendering through the /api/convert handler: none that
\* is baked into the image data sent is also applied by the executor.
C21_TransformationsAppliedOnce ==
  \A k \in DOMAIN saves.pending :
     \A t \in Transformations :
        ~(/\ Baked(t, saves.pending[k].canvas)
          /\ AppliedByExecutor(t, saves.pending[k].body))

\* C21 for the Saves of a draft whose adjustments are untouched.
C21_UntouchedDraftAppliedOnce ==
  \A k \in DOMAIN saves.pending :
     (\A t \in Transformations : ~Baked(t, saves.pending[k].canvas)) =>
        \A t \in Transformations : ~AppliedByExecutor(t, saves.pending[k].body)

\* C22: Quick Convert keeps isProcessing true for as long as its conversion
\* request is outstanding (from the click until the file has been read and
\* the response handled), so the button stays disabled and at most one
\* quick-convert request is in flight at any time.
C22_QuickConvertHoldsProcessing ==
  /\ page.quick # <<>> => page.isProcessing
  /\ Len(page.quick) <= 1

\* The download `link` names the format its data was encoded with.
MatchesEncoding(link) ==
  link.mime = link.data.format /\ link.extension = link.data.format

\* C23: whenever a completed batch item is downloaded (downloadSingle or
\* downloadAll), the MIME type and the file extension given to the download
\* equal the output format with which the item's result was encoded, for any
\* sequence of runs and settings changes made before the download.
C23_DownloadMatchesEncoding ==
  /\ \A k \in DOMAIN files :
        IsSome(downloadSingle(files[k])) =>
           MatchesEncoding(downloadSingle(files[k])[1])
  /\ \A j \in DOMAIN downloadAll : MatchesEncoding(downloadAll[j])

====
